---- MODULE Spec2Model ----
(***************************************************************************)
(* Model of osgearth_manip.cpp: main's start-up sequence, the seven event  *)
(* handlers it installs on the viewer (Simulator, FlyToViewpointHandler,   *)
(* LockAzimuthHandler, ToggleArcViewpointTransitionsHandler,               *)
(* ToggleThrowingHandler, ToggleCollisionHandler, ToggleProjMatrix) and    *)
(* the render loop that feeds them events.                                 *)
(*                                                                         *)
(* The manipulator, the camera and the viewer are library objects; of them *)
(* the model keeps exactly the fields the handlers read and write.         *)
(***************************************************************************)
EXTENDS Integers, Sequences, FiniteSets, TLC

VARIABLES
    pc,         \* main's position: "start", "load", "loaded", "loop", "exited"
    args,       \* the command line: which arguments are present
    exitCode,   \* {} while main runs, then {its return value}
    created,    \* the objects main has constructed so far ("modelFile": the
                \* string read from --model)
    out,        \* the messages main has printed
    handlers,   \* viewer's event handler list, in installation order
    manip,      \* EarthManipulator and its Settings
    camera,     \* viewer's camera: the projection matrix
    toggleProj, \* ToggleProjMatrix's fields _vfov, _ar, _zn, _zf
    sim,        \* Simulator's fields and the nodes it positions
    lastEvent,  \* the event of the latest event traversal
    results,    \* handler |-> what its handle() returned for lastEvent
    calls,      \* the library calls the handlers made for lastEvent
    start,      \* history: the manipulator as constructed, and manipulator
                \* and projection as the render loop began
    hist        \* history: parity of key presses since the render loop began

vars == <<pc, args, exitCode, created, out, handlers, manip, camera, toggleProj, sim,
          lastEvent, results, calls, start, hist>>

-----------------------------------------------------------------------------
(* Bounds of the model *)

\* The clock read by a FRAME event runs over 0 .. MaxLaps full periods.
MaxLaps == 1

\* Aspect ratios the window (and so the perspective matrix) can take.
MaxAspect == 2

-----------------------------------------------------------------------------
(* Events: GUIEventAdapter's type and key *)

KEYDOWN == "KEYDOWN"
KEYUP   == "KEYUP"
FRAME   == "FRAME"
RESIZE  == "RESIZE"

\* Character codes of the keys the handlers compare against.
Key1 == 49
Key6 == 54
KeyU == 117
KeyA == 97
KeyZ == 122
KeyK == 107
KeyO == 111
KeyT == 116
KeyShiftT == 84

\* Keys the keyboard delivers in the model: the bound keys, the two
\* neighbours of the number range ('0', '7') and the unbound letter 'U'.
Keys == (Key1 .. Key6) \cup {48, 55, KeyU, KeyA, KeyZ, KeyK, KeyO, KeyT,
                              KeyShiftT, 85}

\* The keys createHelp documents.
BoundKeys == (Key1 .. Key6) \cup {KeyU, KeyO, KeyT, KeyShiftT, KeyA, KeyZ, KeyK}

NoEvent == [type |-> "NONE", key |-> 0]

-----------------------------------------------------------------------------
(* Preset viewpoints *)

VP(name, lonE6, latE6, heading, pitch, range) ==
    [name |-> name, lon |-> lonE6, lat |-> latE6,
     heading |-> heading, pitch |-> pitch, range |-> range]

\* static Viewpoint VPs[]; C arrays index from 0.  Degrees are in millionths.
VPs ==
    [i \in 0 .. 5 |->
        CASE i = 0 -> VP("Africa",                0,         0, 0, -90, 10000000)
          [] i = 1 -> VP("California",   -121000000,  34000000, 0, -90,  6000000)
          [] i = 2 -> VP("Europe",                0,  45000000, 0, -90,  4000000)
          [] i = 3 -> VP("Washington DC", -77000000,  38000000, 0, -90,  1000000)
          [] i = 4 -> VP("Australia",     135000000, -20000000, 0, -90,  2000000)
          [] i = 5 -> VP("Boston",        -71096936,  42332771, 0, -90,   100000)]

\* VPs[i] as C evaluates it: reading outside the array is not a preset.
VPsAt(i) == IF i \in DOMAIN VPs THEN VPs[i] ELSE "out_of_bounds"

-----------------------------------------------------------------------------
(* The handlers.  Each takes the event ea and the objects s it can reach   *)
(* (s.manip, s.camera, s.toggleProj, s.sim, the clock s.time_s, the pose    *)
(* s.viewpoint that getViewpoint() reports and the log s.calls of library  *)
(* calls) and yields the objects afterwards and handle()'s return value.   *)

Ret(s, r) == [s |-> s, ret |-> r]

Call(s, c) == [s EXCEPT !.calls = Append(@, c)]

FlyToViewpointHandler_WrongBase(ea, s) ==
    IF ea.type = KEYDOWN /\ ea.key >= Key1 /\ ea.key <= Key6
    THEN Ret(Call(Call(s, [fn |-> "setViewpoint", by |-> "FlyToViewpointHandler",
                           index |-> ea.key - Key1 + 1,
                           vp |-> VPsAt(ea.key - Key1 + 1), duration |-> 4]),
                  [fn |-> "requestRedraw", by |-> "FlyToViewpointHandler"]),
             FALSE)
    ELSE Ret(s, FALSE)

FlyToViewpointHandler(ea, s) ==
    IF ea.type = KEYDOWN /\ ea.key >= Key1 /\ ea.key <= Key6
    THEN Ret(Call(Call(s, [fn |-> "setViewpoint", by |-> "FlyToViewpointHandler",
                           index |-> ea.key - Key1,
                           vp |-> VPsAt(ea.key - Key1), duration |-> 4]),
                  [fn |-> "requestRedraw", by |-> "FlyToViewpointHandler"]),
             FALSE)
    ELSE Ret(s, FALSE)

LockAzimuthHandler_Sets(key, ea, s) ==
    IF ea.type = KEYDOWN /\ ea.key = key
    THEN Ret(Call([s EXCEPT !.manip.lockAzimuth = TRUE],
                  [fn |-> "requestRedraw", by |-> "LockAzimuthHandler"]), TRUE)
    ELSE Ret(s, FALSE)

LockAzimuthHandler(key, ea, s) ==
    IF ea.type = KEYDOWN /\ ea.key = key
    THEN Ret(Call([s EXCEPT !.manip.lockAzimuth = ~ s.manip.lockAzimuth],
                  [fn |-> "requestRedraw", by |-> "LockAzimuthHandler"]), TRUE)
    ELSE Ret(s, FALSE)

ToggleArcViewpointTransitionsHandler(key, ea, s) ==
    IF ea.type = KEYDOWN /\ ea.key = key
    THEN Ret(Call([s EXCEPT !.manip.arc = ~ s.manip.arc],
                  [fn |-> "requestRedraw",
                   by |-> "ToggleArcViewpointTransitionsHandler"]), TRUE)
    ELSE Ret(s, FALSE)

ToggleThrowingHandler_AnyKey(key, ea, s) ==
    IF ea.type = KEYDOWN
    THEN Ret(Call([s EXCEPT !.manip.throwing = ~ s.manip.throwing],
                  [fn |-> "requestRedraw", by |-> "ToggleThrowingHandler"]), TRUE)
    ELSE Ret(s, FALSE)

ToggleThrowingHandler(key, ea, s) ==
    IF ea.type = KEYDOWN /\ ea.key = key
    THEN Ret(Call([s EXCEPT !.manip.throwing = ~ s.manip.throwing],
                  [fn |-> "requestRedraw", by |-> "ToggleThrowingHandler"]), TRUE)
    ELSE Ret(s, FALSE)

ToggleCollisionHandler_AlsoThrowing(key, ea, s) ==
    IF ea.type = KEYDOWN /\ ea.key = key
    THEN Ret(Call([s EXCEPT !.manip.terrainAvoid = ~ s.manip.terrainAvoid,
                            !.manip.throwing = ~ s.manip.throwing],
                  [fn |-> "requestRedraw", by |-> "ToggleCollisionHandler"]), TRUE)
    ELSE Ret(s, FALSE)

ToggleCollisionHandler(key, ea, s) ==
    IF ea.type = KEYDOWN /\ ea.key = key
    THEN Ret(Call([s EXCEPT !.manip.terrainAvoid = ~ s.manip.terrainAvoid],
                  [fn |-> "requestRedraw", by |-> "ToggleCollisionHandler"]), TRUE)
    ELSE Ret(s, FALSE)

-----------------------------------------------------------------------------
(* Projection matrices.  A matrix is kept as what built it: element (3,3)  *)
(* is 0 for a perspective matrix and 1 for an orthographic one.            *)

\* The value of a double that was never assigned: no parameter of a real
\* projection is negative.
Uninit == -1

\* osg::Matrix::makePerspective
Perspective(vfov, ar, zn, zf) ==
    [m33 |-> 0, vfov |-> vfov, ar |-> ar, zn |-> zn, zf |-> zf]

\* osg::Matrix::makeOrtho
Ortho(l, r, b, t, zn, zf) ==
    [m33 |-> 1, left |-> l, right |-> r, bottom |-> b, top |-> t,
     zn |-> zn, zf |-> zf]

\* osg::Matrix::getPerspective, applied to a perspective matrix
GetPerspective(proj) ==
    [vfov |-> proj.vfov, ar |-> proj.ar, zn |-> proj.zn, zf |-> proj.zf]

IsPerspective(proj) == proj.m33 = 0
IsOrtho(proj)       == proj.m33 = 1

\* ToggleProjMatrix's constructor initialises _key and _manip only.
ToggleProjInit == [vfov |-> Uninit, ar |-> Uninit, zn |-> Uninit, zf |-> Uninit]

ToggleProjMatrix_NoCapture(key, ea, s) ==
    IF ea.type = KEYDOWN /\ ea.key = key
    THEN LET proj == s.camera.proj
             f    == s.toggleProj
             s1   == IF proj.m33 = 0
                     THEN [s EXCEPT !.camera.proj =
                               Ortho(-1, 1, -1, 1, f.zn, f.zf)]
                     ELSE [s EXCEPT !.camera.proj =
                               Perspective(f.vfov, f.ar, f.zn, f.zf)]
         IN  Ret(Call(Call(s1, [fn |-> IF proj.m33 = 0
                                       THEN "setProjectionMatrixAsOrtho"
                                       ELSE "setProjectionMatrixAsPerspective",
                                by |-> "ToggleProjMatrix",
                                params |-> s1.toggleProj]),
                      [fn |-> "requestRedraw", by |-> "ToggleProjMatrix"]), TRUE)
    ELSE Ret(s, FALSE)

ToggleProjMatrix_AlwaysOrtho(key, ea, s) ==
    IF ea.type = KEYDOWN /\ ea.key = key
    THEN LET proj == s.camera.proj
             s1   == [s EXCEPT !.toggleProj = IF proj.m33 = 0
                                              THEN GetPerspective(proj) ELSE @,
                               !.camera.proj =
                                   Ortho(-1, 1, -1, 1, proj.zn, proj.zf)]
         IN  Ret(Call(Call(s1, [fn |-> "setProjectionMatrixAsOrtho",
                                by |-> "ToggleProjMatrix",
                                params |-> s1.toggleProj]),
                      [fn |-> "requestRedraw", by |-> "ToggleProjMatrix"]), TRUE)
    ELSE Ret(s, FALSE)

ToggleProjMatrix(key, ea, s) ==
    IF ea.type = KEYDOWN /\ ea.key = key
    THEN LET proj == s.camera.proj
             s1   == IF proj.m33 = 0
                     THEN \* proj.getPerspective(_vfov, _ar, _zn, _zf), then ortho
                          LET f == GetPerspective(proj)
                          IN  [s EXCEPT !.toggleProj = f,
                                        !.camera.proj =
                                            Ortho(-1, 1, -1, 1, f.zn, f.zf)]
                     ELSE LET f == s.toggleProj
                          IN  [s EXCEPT !.camera.proj =
                                            Perspective(f.vfov, f.ar, f.zn, f.zf)]
         IN  Ret(Call(Call(s1, [fn |-> IF proj.m33 = 0
                                       THEN "setProjectionMatrixAsOrtho"
                                       ELSE "setProjectionMatrixAsPerspective",
                                by |-> "ToggleProjMatrix",
                                params |-> s1.toggleProj]),
                      [fn |-> "requestRedraw", by |-> "ToggleProjMatrix"]), TRUE)
    ELSE Ret(s, FALSE)

-----------------------------------------------------------------------------
(* Simulator *)

Period   == 600
Altitude == 2500
NullNode == "null"
XForm    == "xform"      \* the Simulator's GeoTransform, _xform

TETHER_CENTER             == "TETHER_CENTER"
TETHER_CENTER_AND_HEADING == "TETHER_CENTER_AND_HEADING"

\* The path parameter without the fmod.
PathPoint_NoFmod(sm, time) ==
    [valid |-> TRUE,
     from |-> <<sm.lat0, sm.lon0>>, to |-> <<sm.lat1, sm.lon1>>,
     t600 |-> time, alt |-> Altitude]

\* The point GeoMath::interpolate yields on the path at parameter
\* t = fmod(time_s, 600) / 600, kept as the numerator of t over Period.
PathPoint(sm, time) ==
    [valid |-> TRUE,
     from |-> <<sm.lat0, sm.lon0>>, to |-> <<sm.lat1, sm.lon1>>,
     t600 |-> time % Period, alt |-> Altitude]

\* GeoPoint(): the invalid point a transform or label holds before a frame.
InvalidPoint ==
    [valid |-> FALSE, from |-> <<0, 0>>, to |-> <<0, 0>>, t600 |-> 0, alt |-> 0]

Simulator_SetsTether(ea, s) ==
    IF ea.type = FRAME
    THEN LET p == PathPoint(s.sim, s.time_s)
         IN  Ret([s EXCEPT !.sim.xformPos = p, !.sim.labelPos = p], FALSE)
    ELSE IF ea.type = KEYDOWN
    THEN IF ea.key = KeyT \/ ea.key = KeyShiftT
         THEN Ret(Call([s EXCEPT !.manip.tetherMode = TETHER_CENTER_AND_HEADING,
                                 !.manip.tetherNode = XForm],
                       [fn |-> "setTetherNode", by |-> "Simulator",
                        node |-> XForm, duration |-> 2]), TRUE)
         ELSE Ret(s, TRUE)
    ELSE Ret(s, FALSE)

\* Key 't' without the setTetherMode call.
Simulator_NoTetherMode(ea, s) ==
    IF ea.type = FRAME
    THEN LET p == PathPoint(s.sim, s.time_s)
         IN  Ret([s EXCEPT !.sim.xformPos = p, !.sim.labelPos = p], FALSE)
    ELSE IF ea.type = KEYDOWN
    THEN IF ea.key = KeyT
         THEN LET node == IF s.manip.tetherNode # NullNode THEN NullNode ELSE XForm
                  s1   == [s EXCEPT !.manip.tetherNode = node]
              IN  Ret(Call(Call(s1,
                      [fn |-> "setTetherNode", by |-> "Simulator",
                       node |-> node, duration |-> 2]),
                      \* vp = getViewpoint(); vp.setRange(5000); setViewpoint(vp)
                      [fn |-> "setViewpoint", by |-> "Simulator",
                       vp |-> [s.viewpoint EXCEPT !.range = 5000],
                       duration |-> 0]), TRUE)
         ELSE IF ea.key = KeyShiftT
         THEN LET node == IF s.manip.tetherNode # NullNode THEN NullNode ELSE XForm
                  s1   == [s EXCEPT !.manip.tetherMode = TETHER_CENTER_AND_HEADING,
                                    !.manip.tetherNode = node]
              IN  Ret(Call(Call(s1,
                      [fn |-> "setTetherMode", by |-> "Simulator",
                       mode |-> TETHER_CENTER_AND_HEADING]),
                      [fn |-> "setTetherNode", by |-> "Simulator",
                       node |-> node, duration |-> 2,
                       heading |-> 45, pitch |-> -45, range |-> 5000]), TRUE)
         ELSE Ret(s, TRUE)
    ELSE Ret(s, FALSE)

Simulator(ea, s) ==
    IF ea.type = FRAME
    THEN LET p == PathPoint(s.sim, s.time_s)
         IN  Ret([s EXCEPT !.sim.xformPos = p, !.sim.labelPos = p], FALSE)
    ELSE IF ea.type = KEYDOWN
    THEN IF ea.key = KeyT
         THEN LET node == IF s.manip.tetherNode # NullNode THEN NullNode ELSE XForm
                  s1   == [s EXCEPT !.manip.tetherMode = TETHER_CENTER_AND_HEADING,
                                    !.manip.tetherNode = node]
              IN  Ret(Call(Call(Call(s1,
                      [fn |-> "setTetherMode", by |-> "Simulator",
                       mode |-> TETHER_CENTER_AND_HEADING]),
                      [fn |-> "setTetherNode", by |-> "Simulator",
                       node |-> node, duration |-> 2]),
                      \* vp = getViewpoint(); vp.setRange(5000); setViewpoint(vp)
                      [fn |-> "setViewpoint", by |-> "Simulator",
                       vp |-> [s.viewpoint EXCEPT !.range = 5000],
                       duration |-> 0]), TRUE)
         ELSE IF ea.key = KeyShiftT
         THEN LET node == IF s.manip.tetherNode # NullNode THEN NullNode ELSE XForm
                  s1   == [s EXCEPT !.manip.tetherMode = TETHER_CENTER_AND_HEADING,
                                    !.manip.tetherNode = node]
              IN  Ret(Call(Call(s1,
                      [fn |-> "setTetherMode", by |-> "Simulator",
                       mode |-> TETHER_CENTER_AND_HEADING]),
                      [fn |-> "setTetherNode", by |-> "Simulator",
                       node |-> node, duration |-> 2,
                       heading |-> 45, pitch |-> -45, range |-> 5000]), TRUE)
         ELSE Ret(s, TRUE)
    ELSE Ret(s, FALSE)

-----------------------------------------------------------------------------
(* The viewer's event traversal *)

Handler(name, key) == [name |-> name, key |-> key]

\* The handlers main adds, in the order of its addEventHandler calls.
InstalledHandlers ==
    << Handler("Simulator", 0),
       Handler("FlyToViewpointHandler", 0),
       Handler("LockAzimuthHandler", KeyU),
       Handler("ToggleArcViewpointTransitionsHandler", KeyA),
       Handler("ToggleThrowingHandler", KeyZ),
       Handler("ToggleCollisionHandler", KeyK),
       Handler("ToggleProjMatrix", KeyO) >>

HandlerNames == { InstalledHandlers[i].name : i \in DOMAIN InstalledHandlers }

\* The virtual call h->handle(ea, aa)
Handle(h, ea, s) ==
    CASE h.name = "Simulator"             -> Simulator(ea, s)
      [] h.name = "FlyToViewpointHandler" -> FlyToViewpointHandler(ea, s)
      [] h.name = "LockAzimuthHandler"    -> LockAzimuthHandler(h.key, ea, s)
      [] h.name = "ToggleArcViewpointTransitionsHandler" ->
                                ToggleArcViewpointTransitionsHandler(h.key, ea, s)
      [] h.name = "ToggleThrowingHandler"  -> ToggleThrowingHandler(h.key, ea, s)
      [] h.name = "ToggleCollisionHandler" -> ToggleCollisionHandler(h.key, ea, s)
      [] h.name = "ToggleProjMatrix"       -> ToggleProjMatrix(h.key, ea, s)

\* A traversal that stops at the first handler that reports the event handled.
RECURSIVE Dispatch_StopWhenHandled(_, _, _, _)
Dispatch_StopWhenHandled(hs, ea, s, res) ==
    IF hs = <<>>
    THEN [s |-> s, res |-> res]
    ELSE LET r == Handle(Head(hs), ea, s)
         IN  IF r.ret
             THEN [s |-> r.s, res |-> res @@ (Head(hs).name :> r.ret)]
             ELSE Dispatch_StopWhenHandled(Tail(hs), ea, r.s,
                                           res @@ (Head(hs).name :> r.ret))

\* viewer.frame()'s event traversal hands the event to every handler of the
\* list in turn; a handler's return value marks the event handled and does
\* not end the traversal.  res collects the return values.
RECURSIVE Dispatch(_, _, _, _)
Dispatch(hs, ea, s, res) ==
    IF hs = <<>>
    THEN [s |-> s, res |-> res]
    ELSE LET r == Handle(Head(hs), ea, s)
         IN  Dispatch(Tail(hs), ea, r.s, res @@ (Head(hs).name :> r.ret))

NoResults == << >>

-----------------------------------------------------------------------------
(* main *)

Argc(a) == 1 + (IF a.help THEN 1 ELSE 0) + (IF a.earth THEN 1 ELSE 0)
             + (IF a.model THEN 2 ELSE 0)

\* The command lines main is started with: no argument, --help alone, an
\* earth file, an earth file with --help, an earth file with --model <file>.
CommandLines ==
    { a \in [help : BOOLEAN, earth : BOOLEAN, model : BOOLEAN] :
         a.model => (a.earth /\ ~ a.help) }

ACTION_PAN  == "ACTION_PAN"
ACTION_GOTO == "ACTION_GOTO"

\* new EarthManipulator(): the four switches start at the library's
\* defaults, which this program does not fix; no node is tethered.  The
\* distance and pitch limits hold the value this program gave them, and are
\* empty while they are the library's.
NewManip(lock, arc, throw, avoid) ==
    [lockAzimuth |-> lock, arc |-> arc, throwing |-> throw,
     terrainAvoid |-> avoid,
     tetherNode |-> NullNode, tetherMode |-> TETHER_CENTER,
     breakTether |-> << >>,
     minDistance |-> {}, maxDistance |-> {},
     minPitch |-> {}, maxPitch |-> {},
     tetherCB |-> FALSE]

\* Simulator's constructor without the test of model.
NewSimulator_NullModel(model) ==
    [model |-> model,
     lat0 |-> 55, lon0 |-> 45, lat1 |-> -55, lon1 |-> -45,
     xformPos |-> InvalidPoint, labelPos |-> InvalidPoint]

\* Simulator's constructor: a null model is replaced by the sphere.
NewSimulator(model) ==
    [model |-> IF model = NullNode THEN "sphere" ELSE model,
     lat0 |-> 55, lon0 |-> 45, lat1 |-> -55, lon1 |-> -45,
     xformPos |-> InvalidPoint, labelPos |-> InvalidPoint]

\* The library's defaults of <<azimuth lock, arcing, throwing, terrain
\* avoidance>> are not this program's to choose: every switch is tried from
\* both values.
LibraryDefaults == { <<FALSE, FALSE, FALSE, TRUE>>, <<TRUE, TRUE, TRUE, FALSE>> }

\* What the variables hold while the object they describe is not constructed.
NoManip  == NewManip(FALSE, FALSE, FALSE, FALSE)
NoCamera == [proj |-> Perspective(Uninit, Uninit, Uninit, Uninit)]
NoSim    == [model |-> NullNode, lat0 |-> 0, lon0 |-> 0, lat1 |-> 0, lon1 |-> 0,
             xformPos |-> InvalidPoint, labelPos |-> InvalidPoint]
NoStart  == [made |-> NoManip, manip |-> NoManip, proj |-> NoCamera.proj]

\* Parities of the presses of each key since the render loop began; for the
\* tether keys, since it began or the manipulator last broke the tether.
\* cap: the perspective parameters the camera had when key 'o' last found it
\* in perspective.
NoHist == [u |-> 0, a |-> 0, z |-> 0, k |-> 0, o |-> 0, tether |-> 0,
           cap |-> ToggleProjInit]

Init ==
    /\ pc = "start"
    /\ args \in CommandLines
    /\ exitCode = {}
    /\ created = {}
    /\ out = {}
    /\ handlers = << >>
    /\ manip = NoManip
    /\ camera = NoCamera
    /\ toggleProj = ToggleProjInit
    /\ sim = NoSim
    /\ lastEvent = NoEvent
    /\ results = NoResults
    /\ calls = << >>
    /\ start = NoStart
    /\ hist = NoHist

\* if (arguments.read("--help") || argc==1) { usage; return 0; }
MainUsage ==
    /\ pc = "start"
    /\ args.help \/ Argc(args) = 1
    /\ out' = out \cup {"Usage"}
    /\ exitCode' = {0}
    /\ pc' = "exited"
    /\ UNCHANGED <<args, created, handlers, manip, camera, toggleProj, sim,
                   lastEvent, results, calls, start, hist>>

\* main without the early return: it goes on after printing the usage.
MainCreate_NoUsageCheck ==
    /\ pc = "start"
    /\ camera' = [proj |-> Perspective(30, 1, 1, 10000)]
    /\ \E d \in LibraryDefaults : manip' = NewManip(d[1], d[2], d[3], d[4])
    /\ created' = created \cup {"viewer", "manip", "help"}
    /\ start' = [start EXCEPT !.made = manip']
    /\ pc' = "load"
    /\ UNCHANGED <<args, exitCode, out, handlers, toggleProj, sim, lastEvent,
                   results, calls, hist>>

\* Viewer, manipulator and help UI are created.  The viewer's camera starts
\* with a perspective projection whose aspect ratio follows the display.
MainCreate ==
    /\ pc = "start"
    /\ ~ (args.help \/ Argc(args) = 1)
    /\ camera' = [proj |-> Perspective(30, 1, 1, 10000)]
    /\ \E d \in LibraryDefaults : manip' = NewManip(d[1], d[2], d[3], d[4])
    /\ created' = created \cup {"viewer", "manip", "help"}
    /\ start' = [start EXCEPT !.made = manip']
    /\ pc' = "load"
    /\ UNCHANGED <<args, exitCode, out, handlers, toggleProj, sim, lastEvent,
                   results, calls, hist>>

\* osg::Node* earthNode = MapNodeHelper().load(...): a node or null.
MainLoad ==
    /\ pc = "load"
    /\ \E loaded \in BOOLEAN :
          created' = IF loaded THEN created \cup {"scene"} ELSE created
    /\ pc' = "loaded"
    /\ UNCHANGED <<args, exitCode, out, handlers, manip, camera, toggleProj, sim,
                   lastEvent, results, calls, start, hist>>

\* if (!earthNode) { warning; return -1; }
MainLoadFailed ==
    /\ pc = "loaded"
    /\ "scene" \notin created
    /\ out' = out \cup {"Unable to load earth model."}
    /\ exitCode' = {-1}
    /\ pc' = "exited"
    /\ UNCHANGED <<args, created, handlers, manip, camera, toggleProj, sim,
                   lastEvent, results, calls, start, hist>>

\* main without the test of earthNode: it installs the handlers anyway.
MainInstall_NoLoadCheck ==
    /\ pc = "loaded"
    /\ \E readable \in BOOLEAN :
          sim' = NewSimulator(IF args.model /\ readable THEN "user" ELSE NullNode)
    /\ manip' = [manip EXCEPT
                   !.breakTether = Append(Append(@, ACTION_PAN), ACTION_GOTO),
                   !.minDistance = {10},
                   !.arc = TRUE,
                   !.tetherCB = TRUE,
                   !.minPitch = {-90},
                   !.maxPitch = {90}]
    /\ handlers' = handlers \o InstalledHandlers
    /\ toggleProj' = ToggleProjInit
    /\ args' = [args EXCEPT !.model = FALSE]
    /\ created' = created \cup {"Simulator", "TetherCB"}
                           \cup (IF args.model THEN {"modelFile"} ELSE {})
    /\ start' = [start EXCEPT !.manip = manip', !.proj = camera.proj]
    /\ pc' = "loop"
    /\ UNCHANGED <<exitCode, out, camera, lastEvent, results, calls, hist>>

\* The scene loaded: the rest of main up to the render loop.  readable says
\* whether osgDB::readNodeFile finds the --model file.
\* main without setArcViewpointTransitions(true).
MainInstall_NoArc ==
    /\ pc = "loaded"
    /\ "scene" \in created
    /\ \E readable \in BOOLEAN :
          sim' = NewSimulator(IF args.model /\ readable THEN "user" ELSE NullNode)
    /\ manip' = [manip EXCEPT
                   !.breakTether = Append(Append(@, ACTION_PAN), ACTION_GOTO),
                   !.minDistance = {10},
                   !.maxDistance = manip.maxDistance,
                   !.tetherCB = TRUE,
                   !.minPitch = {-90},
                   !.maxPitch = {90}]
    /\ handlers' = handlers \o InstalledHandlers
    /\ toggleProj' = ToggleProjInit
    /\ args' = [args EXCEPT !.model = FALSE]   \* arguments.read removes it
    /\ created' = created \cup {"Simulator", "TetherCB"}
                           \cup (IF args.model THEN {"modelFile"} ELSE {})
    /\ start' = [start EXCEPT !.manip = manip', !.proj = camera.proj]
    /\ pc' = "loop"
    /\ UNCHANGED <<exitCode, out, camera, lastEvent, results, calls, hist>>

MainInstall ==
    /\ pc = "loaded"
    /\ "scene" \in created
    /\ \E readable \in BOOLEAN :
          sim' = NewSimulator(IF args.model /\ readable THEN "user" ELSE NullNode)
    /\ manip' = [manip EXCEPT
                   !.breakTether = Append(Append(@, ACTION_PAN), ACTION_GOTO),
                   !.minDistance = {10},
                   !.maxDistance = manip.maxDistance,
                   !.arc = TRUE,
                   !.tetherCB = TRUE,
                   !.minPitch = {-90},
                   !.maxPitch = {90}]
    /\ handlers' = handlers \o InstalledHandlers
    /\ toggleProj' = ToggleProjInit
    /\ args' = [args EXCEPT !.model = FALSE]   \* arguments.read removes it
    /\ created' = created \cup {"Simulator", "TetherCB"}
                           \cup (IF args.model THEN {"modelFile"} ELSE {})
    /\ start' = [start EXCEPT !.manip = manip', !.proj = camera.proj]
    /\ pc' = "loop"
    /\ UNCHANGED <<exitCode, out, camera, lastEvent, results, calls, hist>>

\* while (!viewer.done()) ... return 0;
MainDone ==
    /\ pc = "loop"
    /\ exitCode' = {0}
    /\ pc' = "exited"
    /\ UNCHANGED <<args, created, out, handlers, manip, camera, toggleProj, sim,
                   lastEvent, results, calls, start, hist>>

-----------------------------------------------------------------------------
(* The render loop: each viewer.frame() takes the pending events and a     *)
(* FRAME event through the handlers.                                       *)

Flip(b) == 1 - b

Pressed(h, ea, cam) ==
    IF ea.type # KEYDOWN THEN h
    ELSE CASE ea.key = KeyU -> [h EXCEPT !.u = Flip(@)]
           [] ea.key = KeyA -> [h EXCEPT !.a = Flip(@)]
           [] ea.key = KeyZ -> [h EXCEPT !.z = Flip(@)]
           [] ea.key = KeyK -> [h EXCEPT !.k = Flip(@)]
           [] ea.key = KeyO ->
                  [h EXCEPT !.o = Flip(@),
                            !.cap = IF cam.proj.m33 = 0
                                    THEN [vfov |-> cam.proj.vfov, ar |-> cam.proj.ar,
                                          zn |-> cam.proj.zn, zf |-> cam.proj.zf]
                                    ELSE @]
           [] ea.key \in {KeyT, KeyShiftT} -> [h EXCEPT !.tether = Flip(@)]
           [] OTHER -> h

\* One event goes through the handler list, with the camera cam, with
\* osg::Timer's clock at tm seconds (only a FRAME event makes a handler read
\* the clock) and with the manipulator's camera pose at vp (only a KEYDOWN
\* of 't' makes a handler read it).
TraverseAt(ea, cam, tm, vp) ==
    LET s0 == [manip |-> manip, camera |-> cam, toggleProj |-> toggleProj,
               sim |-> sim, time_s |-> tm, viewpoint |-> vp, calls |-> << >>]
        d  == Dispatch(handlers, ea, s0, NoResults)
    IN  /\ manip' = d.s.manip
        /\ camera' = d.s.camera
        /\ toggleProj' = d.s.toggleProj
        /\ sim' = d.s.sim
        /\ calls' = d.s.calls
        /\ results' = d.res
        /\ lastEvent' = ea
        /\ hist' = Pressed(hist, ea, cam)
        /\ UNCHANGED <<pc, args, exitCode, created, out, handlers, start>>

\* The same with the camera looking down on the first preset.
Traverse(ea, cam, tm) == TraverseAt(ea, cam, tm, VPs[0])

Event(type, key) == [type |-> type, key |-> key]

\* Seconds on osg::Timer's clock at which frames are drawn: the last second
\* of each period of the path.
FrameTimes == { lap * Period + (Period - 1) : lap \in 0 .. MaxLaps }

KeyDown(keys) ==
    /\ pc = "loop"
    /\ \E k \in keys : Traverse(Event(KEYDOWN, k), camera, 0)

KeyDownEvent == KeyDown(Keys)

KeyUpEvent ==
    /\ pc = "loop"
    /\ \E k \in {KeyU, KeyT} : Traverse(Event(KEYUP, k), camera, 0)

FrameEvent ==
    /\ pc = "loop"
    /\ \E tm \in FrameTimes : Traverse(Event(FRAME, 0), camera, tm)

\* The window is resized: the viewer rescales a perspective projection to
\* the new aspect ratio, and the handlers see a RESIZE event.
ResizeEvent ==
    /\ pc = "loop"
    /\ \E ar \in 1 .. MaxAspect :
          Traverse(Event(RESIZE, 0),
                   IF IsPerspective(camera.proj)
                   THEN [camera EXCEPT !.proj.ar = ar]
                   ELSE camera,
                   0)

\* The manipulator itself performs a pan or a goto (mouse drag, arrow key,
\* double click): both are in its break-tether list, so a tether is dropped.
ManipBreakTether ==
    /\ pc = "loop"
    /\ manip.tetherNode # NullNode
    /\ \E a \in {ACTION_PAN, ACTION_GOTO} :
          /\ \E i \in DOMAIN manip.breakTether : manip.breakTether[i] = a
          /\ manip' = [manip EXCEPT !.tetherNode = NullNode]
    /\ hist' = [hist EXCEPT !.tether = 0]
    /\ lastEvent' = NoEvent
    /\ results' = NoResults
    /\ calls' = << >>
    /\ UNCHANGED <<pc, args, exitCode, created, out, handlers, camera,
                   toggleProj, sim, start>>

Next ==
    \/ MainUsage
    \/ MainCreate
    \/ MainLoad
    \/ MainLoadFailed
    \/ MainInstall
    \/ MainDone
    \/ KeyDownEvent
    \/ KeyUpEvent
    \/ FrameEvent
    \/ ManipBreakTether

Spec == Init /\ [][Next]_vars

\* The program with a window that is resized while it runs, and a user who
\* presses only the projection key, one toggle key and one number key.
ProjKeys == {KeyO, KeyU, Key1}

ProjKeyDownEvent == KeyDown(ProjKeys)

NextProj ==
    \/ MainUsage
    \/ MainCreate
    \/ MainLoad
    \/ MainLoadFailed
    \/ MainInstall
    \/ MainDone
    \/ ProjKeyDownEvent
    \/ ResizeEvent
    \/ FrameEvent

SpecProj == Init /\ [][NextProj]_vars

\* The program with a user who presses only the tether keys, one toggle key
\* and one number key, while the camera pose that getViewpoint() reports and
\* the clock that a frame reads vary.
SimKeys == {KeyT, KeyShiftT, KeyU, Key1}

\* Poses the camera can be in when 't' is pressed: over a preset, and behind
\* the object as 'T' leaves it.
Viewpoints == { VPs[0], VPs[5], VP("", 45000000, 55000000, 45, -45, 5000) }

SimKeyDownEvent ==
    /\ pc = "loop"
    /\ \E k \in SimKeys, vp \in Viewpoints :
          TraverseAt(Event(KEYDOWN, k), camera, 0, vp)

\* Seconds on osg::Timer's clock: the first two, the middle and the last
\* second of each period of the path.
PathTimes ==
    { lap * Period + d : lap \in 0 .. MaxLaps, d \in {0, 1, 300, Period - 1} }

PathFrameEvent ==
    /\ pc = "loop"
    /\ \E tm \in PathTimes : Traverse(Event(FRAME, 0), camera, tm)

NextSim ==
    \/ MainUsage
    \/ MainCreate
    \/ MainLoad
    \/ MainLoadFailed
    \/ MainInstall
    \/ MainDone
    \/ SimKeyDownEvent
    \/ KeyUpEvent
    \/ PathFrameEvent
    \/ ManipBreakTether

SpecSim == Init /\ [][NextSim]_vars

-----------------------------------------------------------------------------
(* Properties *)

\* A step of the render loop that took event ea through the handlers.
EventStep(ea) == pc = "loop" /\ pc' = "loop" /\ lastEvent' = ea

IsKeyDown(ea, key) == ea.type = KEYDOWN /\ ea.key = key

Odd(n) == n = 1

\* C1: started with --help, or with no argument (argc == 1), main prints the
\* usage and returns 0, and it never gets past the start: no viewer,
\* manipulator or help UI is constructed, no scene is loaded, no handler is
\* installed and no event is ever traversed.
C1_UsageExit ==
    (args.help \/ Argc(args) = 1) =>
        /\ pc \in {"start", "exited"}
        /\ pc = "exited" => (exitCode = {0} /\ "Usage" \in out)
        /\ created = {}
        /\ handlers = << >>
        /\ manip = NoManip /\ camera = NoCamera /\ sim = NoSim
        /\ lastEvent = NoEvent /\ results = NoResults /\ calls = << >>

C1_Witness ==
    /\ pc = "exited" /\ exitCode = {0} /\ "Usage" \in out
    /\ args.help /\ args.earth

\* C2: when the scene load yields no node, main prints the warning and
\* returns -1; on that path the Simulator and the six key handlers are not
\* installed, the manipulator is as it was constructed, and no event is ever
\* traversed.
C2_LoadFailure ==
    ("manip" \in created /\ "scene" \notin created /\ pc \notin {"load", "loaded"}) =>
        /\ pc = "exited"
        /\ exitCode = {-1}
        /\ "Unable to load earth model." \in out
        /\ handlers = << >>
        /\ "Simulator" \notin created
        /\ sim = NoSim
        /\ manip = start.made
        /\ toggleProj = ToggleProjInit
        /\ lastEvent = NoEvent /\ results = NoResults /\ calls = << >>

C2_Witness ==
    /\ pc = "exited" /\ exitCode = {-1}
    /\ "manip" \in created /\ "scene" \notin created
    /\ args.model

\* C3: a KEYDOWN of 'u', 'a', 'z' or 'k' negates azimuth lock, arcing,
\* throwing or terrain avoidance; so in the render loop each of the four
\* equals its value at the start of the loop when its key was pressed an even
\* number of times, and the negation of that value otherwise.
C3_ParityNow ==
    "Simulator" \in created =>
    /\ manip.lockAzimuth  = (start.manip.lockAzimuth  # Odd(hist.u))
    /\ manip.arc          = (start.manip.arc          # Odd(hist.a))
    /\ manip.throwing     = (start.manip.throwing     # Odd(hist.z))
    /\ manip.terrainAvoid = (start.manip.terrainAvoid # Odd(hist.k))

C3_Step ==
    /\ \A ea \in [type : {KEYDOWN}, key : {KeyU}] :
          EventStep(ea) => manip'.lockAzimuth = ~ manip.lockAzimuth
    /\ \A ea \in [type : {KEYDOWN}, key : {KeyA}] :
          EventStep(ea) => manip'.arc = ~ manip.arc
    /\ \A ea \in [type : {KEYDOWN}, key : {KeyZ}] :
          EventStep(ea) => manip'.throwing = ~ manip.throwing
    /\ \A ea \in [type : {KEYDOWN}, key : {KeyK}] :
          EventStep(ea) => manip'.terrainAvoid = ~ manip.terrainAvoid
    /\ C3_ParityNow'

C3_ToggleParity == [][C3_Step]_vars

C3_Witness ==
    /\ pc = "loop"
    /\ IsKeyDown(lastEvent, KeyK)
    /\ hist.u = 1 /\ hist.a = 1 /\ hist.z = 0 /\ hist.k = 0
    /\ manip.lockAzimuth = ~ start.manip.lockAzimuth
    /\ manip.terrainAvoid = start.manip.terrainAvoid
    /\ start.manip.terrainAvoid

TetherKeyDowns == [type : {KEYDOWN}, key : {KeyT, KeyShiftT}]

\* C4: 't' and 'T' toggle one tether state: a KEYDOWN of either tethers the
\* manipulator to the Simulator's transform when it has no tether node and
\* clears the node when it has one.  So the node is only ever null or that
\* transform, the loop starts untethered, and the manipulator is tethered
\* exactly after an odd number of 't'/'T' presses since the loop began or a
\* pan or goto last broke the tether.
C4_Step ==
    /\ \A ea \in TetherKeyDowns :
          EventStep(ea) =>
             manip'.tetherNode =
                 IF manip.tetherNode = NullNode THEN XForm ELSE NullNode
    /\ manip'.tetherNode \in {NullNode, XForm}
    /\ "Simulator" \in created' => (manip'.tetherNode = XForm <=> Odd(hist'.tether))
    /\ (pc # "loop" /\ pc' = "loop") => manip'.tetherNode = NullNode

C4_TetherToggle == [][C4_Step]_vars

\* Tethered by an odd number of presses, the latest of them a 'T'.
C4_Witness ==
    /\ pc = "loop"
    /\ IsKeyDown(lastEvent, KeyShiftT)
    /\ manip.tetherNode = XForm
    /\ manip.tetherMode = TETHER_CENTER_AND_HEADING
    /\ hist.tether = 1
    /\ hist.u = 1 /\ hist.o = 1

\* C5: a KEYDOWN of 'o' switches a perspective projection (element (3,3) is
\* 0) to orthographic and an orthographic one to perspective; so the
\* projection has the type it started with exactly after an even number of
\* presses.
C5_Step ==
    /\ \A ea \in [type : {KEYDOWN}, key : {KeyO}] :
          EventStep(ea) =>
             /\ IsPerspective(camera.proj) => IsOrtho(camera'.proj)
             /\ IsOrtho(camera.proj) => IsPerspective(camera'.proj)
             /\ camera.proj.m33 \in {0, 1}
    /\ "Simulator" \in created' =>
          ((camera'.proj.m33 = start'.proj.m33) <=> ~ Odd(hist'.o))

C5_ProjectionToggle == [][C5_Step]_vars

\* Two presses: perspective again.
C5_Witness ==
    /\ pc = "loop"
    /\ IsKeyDown(lastEvent, KeyO)
    /\ hist.o = 0
    /\ IsPerspective(camera.proj)
    /\ toggleProj.vfov # Uninit

\* setViewpoint calls that FlyToViewpointHandler made for the latest event
FlyToCalls ==
    { i \in DOMAIN calls :
         calls[i].by = "FlyToViewpointHandler" /\ calls[i].fn = "setViewpoint" }

\* The help text's numbering of the presets
PresetName(key) ==
    CASE key = 49 -> "Africa"
      [] key = 50 -> "California"
      [] key = 51 -> "Europe"
      [] key = 52 -> "Washington DC"
      [] key = 53 -> "Australia"
      [] key = 54 -> "Boston"

\* C6: a KEYDOWN of '1'..'6' makes FlyToViewpointHandler request one
\* 4-second transition to VPs[key - '1'], whose index is within 0..5 and
\* whose preset is Africa, California, Europe, Washington DC, Australia,
\* Boston for 1..6; for any other key or event type it requests none.
C6_FlyTo ==
    IF lastEvent.type = KEYDOWN /\ lastEvent.key \in 49 .. 54
    THEN /\ Cardinality(FlyToCalls) = 1
         /\ \A i \in FlyToCalls :
               /\ calls[i].index = lastEvent.key - 49
               /\ calls[i].index \in 0 .. 5
               /\ calls[i].vp = VPs[calls[i].index]
               /\ calls[i].vp.name = PresetName(lastEvent.key)
               /\ calls[i].duration = 4
    ELSE FlyToCalls = {}

C6_Witness ==
    /\ IsKeyDown(lastEvent, Key6)
    /\ \E i \in FlyToCalls : calls[i].vp.name = "Boston" /\ calls[i].index = 5
    /\ manip.tetherNode = XForm

\* The handler the help text's binding of a key belongs to
Owner(key) ==
    CASE key \in 49 .. 54 -> "FlyToViewpointHandler"
      [] key = 117 -> "LockAzimuthHandler"
      [] key = 111 -> "ToggleProjMatrix"
      [] key = 116 -> "Simulator"
      [] key = 84  -> "Simulator"
      [] key = 97  -> "ToggleArcViewpointTransitionsHandler"
      [] key = 122 -> "ToggleThrowingHandler"
      [] key = 107 -> "ToggleCollisionHandler"

\* What the help text says the key does, as a relation between the state
\* before and after the event
Documented(key) ==
    CASE key \in 49 .. 54 ->
             \E i \in DOMAIN calls' :
                /\ calls'[i].fn = "setViewpoint"
                /\ calls'[i].by = "FlyToViewpointHandler"
                /\ calls'[i].vp.name = PresetName(key)
      [] key = 117 -> manip'.lockAzimuth = ~ manip.lockAzimuth
      [] key = 111 -> camera'.proj.m33 # camera.proj.m33
      [] key \in {116, 84} -> manip'.tetherNode # manip.tetherNode
      [] key = 97  -> manip'.arc = ~ manip.arc
      [] key = 122 -> manip'.throwing = ~ manip.throwing
      [] key = 107 -> manip'.terrainAvoid = ~ manip.terrainAvoid

\* C7: in the render loop every documented key (1-6, u, o, t, T, a, z, k) is
\* live: the handlers are traversed in main's installation order, Simulator
\* first; Simulator reports the key-down handled, and the key's own handler
\* still receives the event and does what the help text says.
C7_Step ==
    \A ea \in [type : {KEYDOWN}, key : BoundKeys] :
       EventStep(ea) =>
          /\ [i \in DOMAIN handlers |-> handlers[i].name] =
                << "Simulator", "FlyToViewpointHandler", "LockAzimuthHandler",
                   "ToggleArcViewpointTransitionsHandler", "ToggleThrowingHandler",
                   "ToggleCollisionHandler", "ToggleProjMatrix" >>
          /\ "Simulator" \in DOMAIN results' /\ results'["Simulator"]
          /\ Owner(ea.key) \in DOMAIN results'
          /\ Documented(ea.key)

C7_BindingsLive == [][C7_Step]_vars

C7_Witness ==
    /\ pc = "loop"
    /\ IsKeyDown(lastEvent, KeyO)
    /\ results["Simulator"] /\ results["ToggleProjMatrix"]
    /\ IsOrtho(camera.proj)
    /\ manip.tetherNode = XForm
    /\ hist.k = 1 /\ manip.terrainAvoid = ~ start.manip.terrainAvoid

\* The value the claim gives for a handler's handle() on an event
Expected(name, ea) ==
    CASE name = "Simulator"              -> ea.type = KEYDOWN
      [] name = "FlyToViewpointHandler"  -> FALSE
      [] name = "LockAzimuthHandler"     -> ea.type = KEYDOWN /\ ea.key = 117
      [] name = "ToggleArcViewpointTransitionsHandler" ->
                                            ea.type = KEYDOWN /\ ea.key = 97
      [] name = "ToggleThrowingHandler"  -> ea.type = KEYDOWN /\ ea.key = 122
      [] name = "ToggleCollisionHandler" -> ea.type = KEYDOWN /\ ea.key = 107
      [] name = "ToggleProjMatrix"       -> ea.type = KEYDOWN /\ ea.key = 111

\* Events of every type with every printable key, as a fresh loop could get
ProbeEvents == [type : {KEYDOWN, KEYUP, FRAME, RESIZE, "PUSH", "DRAG"},
                key : 32 .. 126]

Current == [manip |-> manip, camera |-> camera, toggleProj |-> toggleProj,
            sim |-> sim, time_s |-> 0, viewpoint |-> VPs[0], calls |-> << >>]

\* C8: for every event, each of the five single-key handlers (u, a, z, k, o)
\* returns TRUE exactly for a KEYDOWN of its own key, FlyToViewpointHandler
\* returns FALSE, and Simulator returns TRUE exactly for a KEYDOWN, whatever
\* the key.
C8_HandledFlags ==
    /\ lastEvent # NoEvent =>
          /\ DOMAIN results = HandlerNames
          /\ \A h \in HandlerNames : results[h] = Expected(h, lastEvent)
    /\ (pc = "loop" /\ lastEvent = NoEvent /\ hist = NoHist) =>
          \A ea \in ProbeEvents : \A i \in DOMAIN handlers :
             Handle(handlers[i], ea, Current).ret = Expected(handlers[i].name, ea)

\* An unbound key: only Simulator reports it handled.
C8_Witness ==
    /\ IsKeyDown(lastEvent, 55)
    /\ results["Simulator"]
    /\ \A h \in HandlerNames \ {"Simulator"} : ~ results[h]
    /\ hist.z = 1

Captured(f) == f.vfov # Uninit /\ f.ar # Uninit /\ f.zn # Uninit /\ f.zf # Uninit

\* C9: when 'o' has switched the camera to perspective, the field of view,
\* aspect ratio, near and far it applied are those the camera had when 'o'
\* last switched it to orthographic; the handler never applies parameters
\* it has not captured.
C9_ProjRoundTrip ==
    /\ ("Simulator" \in created /\ IsKeyDown(lastEvent, KeyO)
            /\ IsPerspective(camera.proj)) =>
          /\ Captured(hist.cap)
          /\ camera.proj = Perspective(hist.cap.vfov, hist.cap.ar,
                                       hist.cap.zn, hist.cap.zf)
          /\ \E i \in DOMAIN calls :
                /\ calls[i].fn = "setProjectionMatrixAsPerspective"
                /\ calls[i].params = hist.cap
    /\ \A i \in DOMAIN calls :
          calls[i].fn \in {"setProjectionMatrixAsPerspective",
                           "setProjectionMatrixAsOrtho"} => Captured(calls[i].params)
    /\ "viewer" \in created => (camera.proj.zn # Uninit /\ camera.proj.zf # Uninit)

\* Resized to aspect 2 before the switch to orthographic, and back.
C9_Witness ==
    /\ pc = "loop"
    /\ IsKeyDown(lastEvent, KeyO)
    /\ IsPerspective(camera.proj)
    /\ camera.proj.ar = 2
    /\ hist.cap.ar = 2
    /\ start.proj.ar = 1

Switches(mp) == <<mp.lockAzimuth, mp.arc, mp.throwing, mp.terrainAvoid>>

\* The switches of a and b differ at position i of Switches and nowhere else.
OnlySwitch(i, a, b) ==
    \A j \in 1 .. 4 : (Switches(a)[j] # Switches(b)[j]) <=> (j = i)

\* C10: what an event changes.  A KEYDOWN of 'u', 'a', 'z' or 'k' changes
\* its own one of the four switches and leaves the other three, the
\* projection type and the tether node as they were; a KEYDOWN of 'o'
\* changes the projection only; an event that is not a KEYDOWN of a bound
\* key (1-6, u, o, t, T, a, z, k), a FRAME event among them, leaves the four
\* switches, the projection type, the tether mode and the tether node as
\* they were.
C10_Step ==
    /\ \A ea \in [type : {KEYDOWN}, key : {117, 97, 122, 107}] :
          EventStep(ea) =>
             /\ OnlySwitch(CASE ea.key = 117 -> 1 [] ea.key = 97 -> 2
                             [] ea.key = 122 -> 3 [] ea.key = 107 -> 4,
                           manip, manip')
             /\ camera'.proj.m33 = camera.proj.m33
             /\ manip'.tetherNode = manip.tetherNode
    /\ \A ea \in [type : {KEYDOWN}, key : {111}] :
          EventStep(ea) =>
             /\ camera'.proj # camera.proj
             /\ manip' = manip
             /\ sim' = sim
    /\ \A ea \in [type : {KEYDOWN, KEYUP, FRAME, RESIZE}, key : Keys \cup {0}] :
          (EventStep(ea) /\ ~ (ea.type = KEYDOWN /\ ea.key \in BoundKeys)) =>
             /\ Switches(manip') = Switches(manip)
             /\ camera'.proj.m33 = camera.proj.m33
             /\ manip'.tetherMode = manip.tetherMode
             /\ manip'.tetherNode = manip.tetherNode

Toggled(node) == IF node = NullNode THEN XForm ELSE NullNode

\* C11: 't' and 'T' differ only in how the pose is set.  A KEYDOWN of 't'
\* sets the tether mode, toggles the tether node with a 2-second transition
\* and then, tethering or untethering alike, re-applies the current
\* viewpoint with its range alone replaced by 5000; a KEYDOWN of 'T' sets
\* the tether mode and toggles the tether node with a 2-second transition
\* to heading 45, pitch -45, range 5000, and sets no viewpoint.  Both set
\* TETHER_CENTER_AND_HEADING, and once set the mode keeps that value.
C11_Step ==
    /\ \A ea \in [type : {KEYDOWN}, key : {116}] :
          EventStep(ea) =>
             /\ Len(calls') = 3
             /\ calls'[1] = [fn |-> "setTetherMode", by |-> "Simulator",
                             mode |-> TETHER_CENTER_AND_HEADING]
             /\ calls'[2] = [fn |-> "setTetherNode", by |-> "Simulator",
                             node |-> Toggled(manip.tetherNode), duration |-> 2]
             /\ calls'[3].fn = "setViewpoint"
             /\ \E vp \in Viewpoints :
                   calls'[3].vp = [name |-> vp.name, lon |-> vp.lon, lat |-> vp.lat,
                                   heading |-> vp.heading, pitch |-> vp.pitch,
                                   range |-> 5000]
             /\ \A vp \in Viewpoints :
                   LET c == Simulator(ea, [Current EXCEPT !.viewpoint = vp]).s.calls
                   IN  c[3].vp = [name |-> vp.name, lon |-> vp.lon, lat |-> vp.lat,
                                  heading |-> vp.heading, pitch |-> vp.pitch,
                                  range |-> 5000]
             /\ manip'.tetherNode = Toggled(manip.tetherNode)
             /\ manip'.tetherMode = TETHER_CENTER_AND_HEADING
    /\ \A ea \in [type : {KEYDOWN}, key : {84}] :
          EventStep(ea) =>
             /\ Len(calls') = 2
             /\ calls'[1] = [fn |-> "setTetherMode", by |-> "Simulator",
                             mode |-> TETHER_CENTER_AND_HEADING]
             /\ calls'[2] = [fn |-> "setTetherNode", by |-> "Simulator",
                             node |-> Toggled(manip.tetherNode), duration |-> 2,
                             heading |-> 45, pitch |-> -45, range |-> 5000]
             /\ manip'.tetherNode = Toggled(manip.tetherNode)
             /\ manip'.tetherMode = TETHER_CENTER_AND_HEADING
    /\ manip.tetherMode = TETHER_CENTER_AND_HEADING =>
          manip'.tetherMode = TETHER_CENTER_AND_HEADING

C11_TetherKeys == [][C11_Step]_vars

\* 't' has just untethered, and re-applied the pose over Boston at range 5000.
C11_Witness ==
    /\ pc = "loop"
    /\ IsKeyDown(lastEvent, KeyT)
    /\ manip.tetherNode = NullNode
    /\ manip.tetherMode = TETHER_CENTER_AND_HEADING
    /\ Len(calls) = 3
    /\ calls[3].vp.name = "Boston" /\ calls[3].vp.range = 5000
    /\ calls[3].vp.pitch = -90

FrameEv == [type |-> FRAME, key |-> 0]

\* C12: a FRAME event puts the object on the path from (lat 55, lon 45) to
\* (lat -55, lon -45) at parameter t = (seconds mod 600) / 600, so
\* 0 <= t < 1 and the point at time s is the point at time s + 600; the
\* transform and the label get the same point, at altitude 2500; no event
\* changes the endpoints.
C12_Now ==
    "Simulator" \in created =>
       /\ <<sim.lat0, sim.lon0, sim.lat1, sim.lon1>> = <<55, 45, -55, -45>>
       /\ sim.xformPos = sim.labelPos
       /\ sim.xformPos.valid =>
             /\ 0 <= sim.xformPos.t600 /\ sim.xformPos.t600 < 600
             /\ sim.xformPos.alt = 2500
             /\ sim.xformPos.from = <<55, 45>> /\ sim.xformPos.to = <<-55, -45>>
       /\ \A tm \in PathTimes :
             LET at(x) == Simulator(FrameEv, [Current EXCEPT !.time_s = x]).s.sim
             IN  /\ at(tm) = at(tm + 600)
                 /\ at(tm).xformPos.t600 = tm - 600 * (tm \div 600)
                 /\ at(tm).xformPos = at(tm).labelPos

C12_Step ==
    /\ EventStep(FrameEv) =>
          /\ sim'.xformPos.valid
          /\ \E tm \in PathTimes : sim'.xformPos.t600 = tm - 600 * (tm \div 600)
    /\ C12_Now'

C12_Path == [][C12_Step]_vars

C12_Witness ==
    /\ pc = "loop"
    /\ lastEvent = FrameEv
    /\ sim.xformPos.valid /\ sim.xformPos.t600 = 300
    /\ sim.labelPos.t600 = 300 /\ sim.labelPos.alt = 2500
    /\ manip.tetherNode = XForm

\* What main has configured by the time the loop starts, and nothing in the
\* loop changes
Configured ==
    /\ \E i \in DOMAIN manip.breakTether : manip.breakTether[i] = "ACTION_PAN"
    /\ \E i \in DOMAIN manip.breakTether : manip.breakTether[i] = "ACTION_GOTO"
    /\ manip.minDistance = {10}
    /\ manip.maxDistance = start.made.maxDistance
    /\ manip.minPitch = {-90} /\ manip.maxPitch = {90}
    /\ manip.tetherCB
    /\ { handlers[i].name : i \in DOMAIN handlers } =
          { "Simulator", "FlyToViewpointHandler", "LockAzimuthHandler",
            "ToggleArcViewpointTransitionsHandler", "ToggleThrowingHandler",
            "ToggleCollisionHandler", "ToggleProjMatrix" }
    /\ Len(handlers) = 7

\* C13: when the render loop is entered, viewpoint arcing is on (so the
\* first press of 'a' turns it off), pan and goto are break-tether actions,
\* the minimum distance is 10 with the maximum as it was, the pitch range is
\* [-90, 90], the tether callback is installed, no node is tethered, and
\* the Simulator and the six key handlers are installed.
C13_Step ==
    /\ (pc # "loop" /\ pc' = "loop") =>
          /\ Configured'
          /\ manip'.arc
          /\ manip'.tetherNode = NullNode
          /\ "Simulator" \in created' /\ "TetherCB" \in created'
    /\ pc' = "loop" => Configured'
    /\ \A ea \in [type : {KEYDOWN}, key : {97}] :
          (EventStep(ea) /\ hist.a = 0) => (manip.arc /\ ~ manip'.arc)

C13_FirstFrameConfig == [][C13_Step]_vars

\* The library's default had arcing off; the loop begins with it on.
C13_Witness ==
    /\ pc = "loop"
    /\ lastEvent = NoEvent /\ hist = NoHist
    /\ manip.arc /\ ~ start.made.arc
    /\ Configured

\* C14: --model is optional and its failure is no error: without it, or
\* when its file cannot be read, the Simulator gets the default sphere, so
\* the object always has a model and main goes on to the render loop; main
\* returns 0 (usage shown, or the loop finished) or -1 (scene load failed)
\* and nothing else.
C14_ModelOptional ==
    /\ "Simulator" \in created =>
          /\ sim.model # NullNode
          /\ sim.model \in {"sphere", "user"}
          /\ "modelFile" \notin created => sim.model = "sphere"
          /\ pc \in {"loop", "exited"}
          /\ pc = "exited" => exitCode = {0}
    /\ exitCode \in {{}, {0}, {-1}}
    /\ (pc = "exited") <=> (exitCode # {})
    /\ exitCode = {0} => ("Usage" \in out \/ "Simulator" \in created)
    /\ exitCode = {-1} => ("scene" \notin created /\ "manip" \in created)

\* --model was given, no model came of it, and the loop runs with the sphere.
C14_Witness ==
    /\ pc = "loop"
    /\ "modelFile" \in created
    /\ sim.model = "sphere"
    /\ lastEvent = FrameEv

====
